---- MODULE Spec2Model ----
(***************************************************************************)
(* Tic-tac-toe (src/game.py): the game context, the minimax bot and the    *)
(* controller (Application.reset_game and the mouse click handler).        *)
(*                                                                         *)
(* Three specifications share the variables:                               *)
(*   Spec          the controller: reset_game and mouse_callback           *)
(*   SpecApi       GameContext.update and MinimaxBot.predict_move called   *)
(*                 directly on a game context                             *)
(*   SpecSelfPlay  two MinimaxBot instances playing each other             *)
(***************************************************************************)
EXTENDS Integers, Sequences, FiniteSets, TLC

VARIABLES
  ctx,                \* Application.ctx : GameContext (moves, board, turn)
  user_player,        \* Application.user_player
  bot,                \* Application.bot : MinimaxBot (player, max_depth, move)
  rival,              \* a second MinimaxBot instance (self play only)
  accept_user_input,  \* Application.accept_user_input
  message,            \* text of Application.text_area
  drawn_ids,          \* number of canvas ids in Application.drawn_ids
  last                \* history: the last operation and what it returned

vars == <<ctx, user_player, bot, rival, accept_user_input, message, drawn_ids, last>>

----------------------------------------------------------------------------
(* Player (IntEnum) and Python's None as a cell / winner value *)
X == 0
O == 1
None == -1

Player(v) == v

Other(p) == Player(1 - p)

\* range(3) x range(3) in row-major order
AllCells ==
  << <<0,0>>, <<0,1>>, <<0,2>>, <<1,0>>, <<1,1>>, <<1,2>>, <<2,0>>, <<2,1>>, <<2,2>> >>

\* filled_equal(x): x is filled with equal elements != None
filled_equal(x) == \A k \in DOMAIN x : x[k] # None /\ x[k] = x[1]

\* GameContext.__init__
GameContext ==
  [moves |-> 0, board |-> [i \in 0..2 |-> [j \in 0..2 |-> None]], turn |-> O]

\* GameContext.possible_moves: the empty cells in row-major order
possible_moves(c) == SelectSeq(AllCells, LAMBDA m : c.board[m[1]][m[2]] = None)

\* GameContext.update, a plausible slip: the move counter is not advanced
update_NoCount(c, row, col) ==
  [moves |-> c.moves,
   board |-> [c.board EXCEPT ![row][col] = c.turn],
   turn  |-> Player(1 - c.turn)]

\* GameContext.update, a plausible slip: the turn is not flipped
update_NoFlip(c, row, col) ==
  [moves |-> c.moves + 1,
   board |-> [c.board EXCEPT ![row][col] = c.turn],
   turn  |-> c.turn]

\* GameContext.update: no check of the cell, of the range or of game over
update(c, row, col) ==
  [moves |-> c.moves + 1,
   board |-> [c.board EXCEPT ![row][col] = c.turn],
   turn  |-> Player(1 - c.turn)]

\* GameContext.is_game_over, a plausible slip: the draw test comes first
is_game_over_DrawFirst(c) ==
  LET b == c.board
      row(i) == <<b[i][0], b[i][1], b[i][2]>>
      col(j) == <<b[0][j], b[1][j], b[2][j]>>
      diag1 == <<b[0][0], b[1][1], b[2][2]>>
      diag2 == <<b[2][0], b[1][1], b[0][2]>>
  IN IF c.moves = 9 THEN <<TRUE, None>>
     ELSE IF filled_equal(row(0)) THEN <<TRUE, row(0)[1]>>
     ELSE IF filled_equal(row(1)) THEN <<TRUE, row(1)[1]>>
     ELSE IF filled_equal(row(2)) THEN <<TRUE, row(2)[1]>>
     ELSE IF filled_equal(col(0)) THEN <<TRUE, col(0)[1]>>
     ELSE IF filled_equal(col(1)) THEN <<TRUE, col(1)[1]>>
     ELSE IF filled_equal(col(2)) THEN <<TRUE, col(2)[1]>>
     ELSE IF filled_equal(diag1) THEN <<TRUE, diag1[1]>>
     ELSE IF filled_equal(diag2) THEN <<TRUE, diag2[1]>>
     ELSE <<FALSE, None>>

\* GameContext.is_game_over, a plausible slip: the columns are not inspected
is_game_over_NoCols(c) ==
  LET b == c.board
      row(i) == <<b[i][0], b[i][1], b[i][2]>>
      diag1 == <<b[0][0], b[1][1], b[2][2]>>
      diag2 == <<b[2][0], b[1][1], b[0][2]>>
  IN IF filled_equal(row(0)) THEN <<TRUE, row(0)[1]>>
     ELSE IF filled_equal(row(1)) THEN <<TRUE, row(1)[1]>>
     ELSE IF filled_equal(row(2)) THEN <<TRUE, row(2)[1]>>
     ELSE IF filled_equal(diag1) THEN <<TRUE, diag1[1]>>
     ELSE IF filled_equal(diag2) THEN <<TRUE, diag2[1]>>
     ELSE IF c.moves = 9 THEN <<TRUE, None>>
     ELSE <<FALSE, None>>

\* GameContext.is_game_over: rows, then columns, then the two diagonals,
\* then the draw test; returns <<over, winner>>
is_game_over(c) ==
  LET b == c.board
      row(i) == <<b[i][0], b[i][1], b[i][2]>>
      col(j) == <<b[0][j], b[1][j], b[2][j]>>
      diag1 == <<b[0][0], b[1][1], b[2][2]>>
      diag2 == <<b[2][0], b[1][1], b[0][2]>>
  IN IF filled_equal(row(0)) THEN <<TRUE, row(0)[1]>>
     ELSE IF filled_equal(row(1)) THEN <<TRUE, row(1)[1]>>
     ELSE IF filled_equal(row(2)) THEN <<TRUE, row(2)[1]>>
     ELSE IF filled_equal(col(0)) THEN <<TRUE, col(0)[1]>>
     ELSE IF filled_equal(col(1)) THEN <<TRUE, col(1)[1]>>
     ELSE IF filled_equal(col(2)) THEN <<TRUE, col(2)[1]>>
     ELSE IF filled_equal(diag1) THEN <<TRUE, diag1[1]>>
     ELSE IF filled_equal(diag2) THEN <<TRUE, diag2[1]>>
     ELSE IF c.moves = 9 THEN <<TRUE, None>>
     ELSE <<FALSE, None>>

----------------------------------------------------------------------------
(* MinimaxBot *)

\* self.move before any assignment (reading it raises AttributeError)
NoMove == <<None, None>>

\* the value standing for max()/min() of an empty sequence (ValueError)
ValueError == 1000

\* MinimaxBot.__init__
MinimaxBot(p, max_depth) == [player |-> p, max_depth |-> max_depth, move |-> NoMove]

RECURSIVE MaxOf(_, _)
\* max(scores[k..]) ; the first maximal element wins, as Python's max
MaxOf(s, k) ==
  IF k >= Len(s) THEN s[k]
  ELSE LET r == MaxOf(s, k + 1) IN IF s[k] >= r THEN s[k] ELSE r

\* min(...), a plausible slip: the opponent's nodes take the largest score
MinOf_AsMax(s, k) == MaxOf(s, k)

RECURSIVE MinOf(_, _)
\* min(scores[k..])
MinOf(s, k) ==
  IF k >= Len(s) THEN s[k]
  ELSE LET r == MinOf(s, k + 1) IN IF s[k] <= r THEN s[k] ELSE r

RECURSIVE FirstIndex_Last(_, _, _)
\* a plausible slip: ties go to the last best element (max with >=)
FirstIndex_Last(s, v, k) ==
  IF k >= Len(s) THEN k
  ELSE LET r == FirstIndex_Last(s, v, k + 1) IN IF s[r] = v THEN r ELSE k

RECURSIVE FirstIndex(_, _, _)
\* max(zip(scores, moves), key=itemgetter(0)): the first index >= k of s
\* holding the best score v
FirstIndex(s, v, k) == IF s[k] = v THEN k ELSE FirstIndex(s, v, k + 1)

\* minimax below the root, a plausible slip: minimising at the bot's own turn
\* and maximising at the opponent's
RECURSIVE minimax_score_Swapped(_, _)
minimax_score_Swapped(player, c) ==
  LET go == is_game_over(c) IN
  IF go[1]
  THEN (IF go[2] = player THEN 10 ELSE IF go[2] = Other(player) THEN -10 ELSE 0)
  ELSE LET moves == possible_moves(c)
           vals == {minimax_score_Swapped(player, update(c, moves[k][1], moves[k][2])) :
                      k \in 1..Len(moves)}
       IN IF vals = {} \/ ValueError \in vals THEN ValueError
          ELSE IF c.turn = player
               THEN (IF -10 \in vals THEN -10 ELSE IF 0 \in vals THEN 0 ELSE 10)
               ELSE (IF 10 \in vals THEN 10 ELSE IF 0 \in vals THEN 0 ELSE -10)

RECURSIVE minimax_score(_, _)
\* lines 89-93: the scores of the children, in the order of moves, each
\* searched on a copy of the context
scores_from(player, c, moves) ==
  [k \in 1..Len(moves) |-> minimax_score(player, update(c, moves[k][1], moves[k][2]))]

\* MinimaxBot.minimax at depth # self.max_depth: only the score is produced.
\* Every recursive call passes depth-1, so below the root call of predict_move
\* the test `depth == self.max_depth` is false and self.move is left alone.
minimax_score(player, c) ==
  LET go == is_game_over(c) IN
  IF go[1]
  THEN (IF go[2] = player THEN 10 ELSE IF go[2] = Other(player) THEN -10 ELSE 0)
  ELSE LET moves == possible_moves(c)
           scores == scores_from(player, c, moves)
       IN IF Len(moves) = 0 \/ (\E k \in 1..Len(scores) : scores[k] = ValueError)
          THEN ValueError
          ELSE IF c.turn = player THEN MaxOf(scores, 1) ELSE MinOf(scores, 1)

\* MinimaxBot.minimax for depth <= self.max_depth (the calls the program makes):
\* returns the score and the value of self.move after the call
minimax(self, curr_ctx, depth) ==
  LET go == is_game_over(curr_ctx) IN
  IF go[1]
  THEN [score |-> (IF go[2] = self.player THEN 10
                   ELSE IF go[2] = Other(self.player) THEN -10 ELSE 0),
        move |-> self.move]
  ELSE LET moves == possible_moves(curr_ctx)
           scores == scores_from(self.player, curr_ctx, moves)
       IN IF Len(moves) = 0 \/ (\E k \in 1..Len(scores) : scores[k] = ValueError)
          THEN [score |-> ValueError, move |-> self.move]
          ELSE LET score == IF curr_ctx.turn = self.player
                            THEN MaxOf(scores, 1) ELSE MinOf(scores, 1)
                   \* max branch: the first best move; min branch: `move` is
                   \* still the loop variable, the last possible move
                   move == IF curr_ctx.turn = self.player
                           THEN moves[FirstIndex(scores, score, 1)]
                           ELSE moves[Len(moves)]
               IN [score |-> score,
                   move |-> IF depth = self.max_depth THEN move ELSE self.move]

\* lines 91-92, a plausible slip: new_ctx = curr_ctx, the child is explored on
\* the parent's own context
parent_after_child_Alias(curr, child_after) == child_after

\* lines 91-92: new_ctx = deepcopy(curr_ctx) is another object, so whatever
\* update and the recursive call do to new_ctx, curr_ctx stays as it was
parent_after_child(curr, child_after) == curr

RECURSIVE ctx_after_minimax(_)
RECURSIVE ctx_after_loop(_, _, _)
\* the context object curr_ctx after the loop of lines 90-93 has run over
\* moves[k..] (moves was computed once, before the loop)
ctx_after_loop(curr, moves, k) ==
  IF k > Len(moves) THEN curr
  ELSE ctx_after_loop(
         parent_after_child(curr,
           ctx_after_minimax(update(curr, moves[k][1], moves[k][2]))),
         moves, k + 1)

\* the context object passed to minimax, as it is when minimax returns
ctx_after_minimax(c) ==
  IF is_game_over(c)[1] THEN c ELSE ctx_after_loop(c, possible_moves(c), 1)

\* MinimaxBot.predict_move: returns the bot after the call, the returned move
\* and the exception raised ("" when none)
predict_move(self, curr_ctx) ==
  LET r == minimax(self, curr_ctx, self.max_depth) IN
  IF r.score = ValueError THEN [self |-> self, move |-> NoMove, raised |-> "ValueError"]
  ELSE IF r.move = NoMove THEN [self |-> self, move |-> NoMove, raised |-> "AttributeError"]
  ELSE [self |-> [self EXCEPT !.move = r.move], move |-> r.move, raised |-> ""]

----------------------------------------------------------------------------
(* Application: the controller *)

\* Application.board_size (pixels); cell_size is board_size/3
board_size == 500

\* max_depth of the bot created by reset_game
AppMaxDepth == 8

\* int(event.x // self.cell_size), a floating-point floor division.
\* cell_size = board_size/3 is the double 166.66666666666666, just below
\* 500/3, so x / cell_size lies just above 3x/500 in magnitude: the floor is
\* that of 3x/500 except at a negative multiple of board_size, where the
\* quotient falls just below the integer and the floor is one less
\* (-500 // cell_size = -4.0, while 500 // cell_size = 3.0).
CellOf(px) ==
  LET q == (3 * px) \div board_size
  IN  IF px < 0 /\ (3 * px) % board_size = 0 THEN q - 1 ELSE q

\* pixel coordinates of the clicks tried: a full board width left of the
\* canvas, just left of it, one inside each third, and the first pixel past
\* the board
Pixels == {-500, -1, 83, 250, 416, 500}

\* the context recorded when predict_move was not called
NoCtx == [moves |-> None, board |-> GameContext.board, turn |-> None]

\* what a history entry holds: the operation, how its target related to the
\* board, whether the move was accepted, whether predict_move was called, the
\* context predict_move was called with, the move returned and the exception
Last(op, target, accepted, bot_called, arg, ret, raised) ==
  [op |-> op, target |-> target, accepted |-> accepted,
   bot_called |-> bot_called, arg |-> arg, ret |-> ret, raised |-> raised]

\* update_canvas: one oval for O, two lines for X are appended to drawn_ids
update_canvas(c, ids) ==
  IF c.turn = O THEN ids + 1 ELSE IF c.turn = X THEN ids + 2 ELSE ids

\* the text shown when the game is over: "Draw!" or f"{chars[winner]} wins!"
game_over_message(c) ==
  LET winning_player == is_game_over(c)[2] IN
  IF winning_player = None THEN "Draw!"
  ELSE IF winning_player = X THEN "X wins!" ELSE "O wins!"

\* line 200, a plausible slip: the opening move is never made
makes_opening_Never(up) == FALSE

\* line 200, a plausible slip: the opening move is made when the human is O
makes_opening_WhenO(up) == up = O

\* line 200: reset_game makes the random opening move when the human is X
makes_opening(up) == up = X

\* Application.reset_game with the three random draws as inputs
reset_game(up, row, col) ==
  LET c0 == GameContext IN
  /\ user_player' = Player(up)
  /\ bot' = MinimaxBot(Player(1 - up), AppMaxDepth)
  /\ IF makes_opening(up)
     THEN /\ drawn_ids' = update_canvas(c0, 0)
          /\ ctx' = update(c0, row, col)
     ELSE /\ drawn_ids' = 0
          /\ ctx' = c0
  /\ accept_user_input' = TRUE
  /\ message' = "Tic-tac-toe!"
  /\ last' = Last("reset", "none", FALSE, FALSE, NoCtx, NoMove, "")
  /\ UNCHANGED rival

\* the guard of the click handler (line 158), a plausible slip: the cell is
\* not tested
click_accepted_AnyCell(accept, c, row, col) == accept

\* the guard of the click handler (line 158), a plausible slip: the freeze
\* flag is not tested
click_accepted_NoFreeze(accept, c, row, col) == c.board[row][col] = None

\* the guard of the click handler (line 158)
click_accepted(accept, c, row, col) == accept /\ c.board[row][col] = None

\* line 163, a plausible slip: the game-over test after the human's move is
\* missing
human_move_ends_game_Never(c) == FALSE

\* line 163: the test made after the human's move, before the bot is asked
human_move_ends_game(c) == is_game_over(c)[1]

\* how the target of a click relates to the board before the click
Target(c, row, col) ==
  IF row \notin 0..2 \/ col \notin 0..2 THEN "out_of_range"
  ELSE IF c.board[row][col] # None THEN "occupied" ELSE "empty"

\* mouse_callback(event): the human move and the bot's reply in one handler
mouse_callback(event_x, event_y) ==
  LET col == CellOf(event_x)
      row == CellOf(event_y)
      tgt == Target(ctx, row, col)
  IN
  IF row \notin 0..2 \/ col \notin 0..2
  THEN /\ last' = Last("click", tgt, FALSE, FALSE, NoCtx, NoMove, "")
       /\ UNCHANGED <<ctx, user_player, bot, rival, accept_user_input, message, drawn_ids>>
  ELSE IF ~ click_accepted(accept_user_input, ctx, row, col)
  THEN /\ last' = Last("click", tgt, FALSE, FALSE, NoCtx, NoMove, "")
       /\ UNCHANGED <<ctx, user_player, bot, rival, accept_user_input, message, drawn_ids>>
  ELSE LET ids1 == update_canvas(ctx, drawn_ids) IN
       \E c1 \in {update(ctx, row, col)} :
          IF human_move_ends_game(c1)
          THEN /\ ctx' = c1
               /\ drawn_ids' = ids1
               /\ accept_user_input' = FALSE
               /\ message' = game_over_message(c1)
               /\ last' = Last("click", tgt, TRUE, FALSE, NoCtx, NoMove, "")
               /\ UNCHANGED <<user_player, bot, rival>>
          ELSE \E p \in {predict_move(bot, c1)} :
               IF p.raised # ""
               THEN \* the exception ends the handler after the human's move
                    /\ ctx' = c1
                    /\ drawn_ids' = ids1
                    /\ last' = Last("click", tgt, TRUE, TRUE, c1, NoMove, p.raised)
                    /\ UNCHANGED <<user_player, bot, rival, accept_user_input, message>>
               ELSE LET ids2 == update_canvas(c1, ids1)
                        c2 == update(c1, p.move[1], p.move[2])
                    IN /\ ctx' = c2
                       /\ drawn_ids' = ids2
                       /\ bot' = p.self
                       /\ last' = Last("click", tgt, TRUE, TRUE, c1, p.move, "")
                       /\ IF is_game_over(c2)[1]
                          THEN /\ accept_user_input' = FALSE
                               /\ message' = game_over_message(c2)
                          ELSE UNCHANGED <<accept_user_input, message>>
                       /\ UNCHANGED <<user_player, rival>>

\* a MinimaxBot that is not in use
NoBot == MinimaxBot(None, 0)

\* Application.__init__ ends in reset_game: the states reset_game produces
Init ==
  \E up \in {X, O}, row \in 0..2, col \in 0..2 :
    /\ user_player = Player(up)
    /\ bot = MinimaxBot(Player(1 - up), AppMaxDepth)
    /\ ctx = (IF makes_opening(up) THEN update(GameContext, row, col) ELSE GameContext)
    /\ drawn_ids = (IF makes_opening(up) THEN update_canvas(GameContext, 0) ELSE 0)
    /\ accept_user_input = TRUE
    /\ message = "Tic-tac-toe!"
    /\ rival = NoBot
    /\ last = Last("reset", "none", FALSE, FALSE, NoCtx, NoMove, "")

Reset == \E up \in {X, O}, row \in 0..2, col \in 0..2 : reset_game(up, row, col)

Click == \E event_x \in Pixels, event_y \in Pixels : mouse_callback(event_x, event_y)

Next == Reset \/ Click

Spec == Init /\ [][Next]_vars

----------------------------------------------------------------------------
(* GameContext and MinimaxBot used directly: update and predict_move called  *)
(* on a context that continues one of a few two-move openings               *)

\* the openings played before the calls start (O moves first)
ApiOpenings == { << <<1,0>>, <<0,0>> >>, << <<1,1>>, <<0,0>> >> }

RECURSIVE play(_, _, _)
\* the context after update is called with moves[k], moves[k+1], ...
play(c, moves, k) ==
  IF k > Len(moves) THEN c ELSE play(update(c, moves[k][1], moves[k][2]), moves, k + 1)

InitApi ==
  \E opening \in ApiOpenings, p \in {X, O} :
    /\ ctx = play(GameContext, opening, 1)
    /\ bot = MinimaxBot(Player(p), AppMaxDepth)
    /\ rival = NoBot
    /\ user_player = None
    /\ accept_user_input = FALSE
    /\ message = ""
    /\ drawn_ids = 0
    /\ last = Last("init", "none", FALSE, FALSE, NoCtx, NoMove, "")

\* ctx.update(row, col) called by a caller that only targets empty cells
ApiUpdate ==
  \E row \in 0..2, col \in 0..2 :
    /\ ctx.board[row][col] = None
    /\ ctx' = update(ctx, row, col)
    /\ last' = Last("update", "empty", TRUE, FALSE, NoCtx, <<row, col>>, "")
    /\ UNCHANGED <<user_player, bot, rival, accept_user_input, message, drawn_ids>>

\* bot.predict_move(ctx): ctx is the object the search was given
ApiPredict ==
  \E p \in {predict_move(bot, ctx)} :
    /\ bot' = p.self
    /\ ctx' = ctx_after_minimax(ctx)
    /\ last' = Last("predict", "none", FALSE, TRUE, ctx, p.move, p.raised)
    /\ UNCHANGED <<user_player, rival, accept_user_input, message, drawn_ids>>

NextApi == ApiUpdate \/ ApiPredict

SpecApi == InitApi /\ [][NextApi]_vars

----------------------------------------------------------------------------
(* GameContext.update called with any coordinates, legal or not             *)

\* the largest number of update calls made on one context
MaxUpdateCalls == 3

\* the row and column values tried: 0..2, one below and one above
Coordinates == -1..3

\* Python list indexing on a list of three: -3..-1 count from the end, any
\* other index outside 0..2 raises IndexError
index_ok(k) == k \in -3..2

list_index(k) == IF k < 0 THEN k + 3 ELSE k

\* a whole call ctx.update(row, col): the context after the call and the
\* exception raised ("" when none). Line 40 has already advanced moves when
\* line 41 raises IndexError; line 42 is then not reached.
update_call(c, row, col) ==
  IF index_ok(row) /\ index_ok(col)
  THEN [ctx |-> update(c, list_index(row), list_index(col)), raised |-> ""]
  ELSE [ctx |-> [c EXCEPT !.moves = c.moves + 1], raised |-> "IndexError"]

InitUpdate ==
  /\ ctx = GameContext
  /\ bot = NoBot
  /\ rival = NoBot
  /\ user_player = None
  /\ accept_user_input = FALSE
  /\ message = ""
  /\ drawn_ids = 0
  /\ last = Last("init", "none", FALSE, FALSE, NoCtx, NoMove, "")

\* ctx.update(row, col) with whatever coordinates the caller passes
UpdateCall ==
  \E row \in Coordinates, col \in Coordinates :
    /\ ctx.moves < MaxUpdateCalls
    /\ \E r \in {update_call(ctx, row, col)} :
         /\ ctx' = r.ctx
         /\ last' = Last("update", Target(ctx, row, col), r.raised = "", FALSE,
                         NoCtx, <<row, col>>, r.raised)
    /\ UNCHANGED <<user_player, bot, rival, accept_user_input, message, drawn_ids>>

NextUpdate == UpdateCall

SpecUpdate == InitUpdate /\ [][NextUpdate]_vars

----------------------------------------------------------------------------
(* Two MinimaxBot instances play each other from the empty board:           *)
(* predict_move by the bot bound to ctx.turn, then update with its result   *)

\* the largest max_depth tried for the bot of the first / second player
MaxDepthFirst == 11
MaxDepthSecond == 10

\* the depths of the self-play scenario: 9 plies (the whole board) and more
SelfPlayDepths(max) == 9..max

InitSelfPlay ==
  \E d1 \in SelfPlayDepths(MaxDepthFirst), d2 \in SelfPlayDepths(MaxDepthSecond) :
    /\ ctx = GameContext
    /\ bot = MinimaxBot(GameContext.turn, d1)
    /\ rival = MinimaxBot(Other(GameContext.turn), d2)
    /\ user_player = None
    /\ accept_user_input = FALSE
    /\ message = ""
    /\ drawn_ids = 0
    /\ last = Last("init", "none", FALSE, FALSE, NoCtx, NoMove, "")

\* the first player's bot predicts
SelfPredictFirst ==
  /\ last.op # "predict"
  /\ ~ is_game_over(ctx)[1]
  /\ ctx.turn = bot.player
  /\ \E p \in {predict_move(bot, ctx)} :
       /\ bot' = p.self
       /\ last' = Last("predict", "none", FALSE, TRUE, ctx, p.move, p.raised)
  /\ UNCHANGED <<ctx, user_player, rival, accept_user_input, message, drawn_ids>>

\* the second player's bot predicts
SelfPredictSecond ==
  /\ last.op # "predict"
  /\ ~ is_game_over(ctx)[1]
  /\ ctx.turn = rival.player
  /\ \E p \in {predict_move(rival, ctx)} :
       /\ rival' = p.self
       /\ last' = Last("predict", "none", FALSE, TRUE, ctx, p.move, p.raised)
  /\ UNCHANGED <<ctx, user_player, bot, accept_user_input, message, drawn_ids>>

\* the predicted move is applied with update
SelfApply ==
  /\ last.op = "predict"
  /\ last.raised = ""
  /\ ctx' = update(ctx, last.ret[1], last.ret[2])
  /\ last' = Last("update", "none", TRUE, FALSE, NoCtx, last.ret, "")
  /\ UNCHANGED <<user_player, bot, rival, accept_user_input, message, drawn_ids>>

NextSelfPlay == SelfPredictFirst \/ SelfPredictSecond \/ SelfApply

SpecSelfPlay == InitSelfPlay /\ [][NextSelfPlay]_vars

----------------------------------------------------------------------------
(* Vocabulary of the properties, stated on the board itself *)

Cells == {<<i, j>> : i \in 0..2, j \in 0..2}

LineSets ==
  { {<<i, 0>>, <<i, 1>>, <<i, 2>>} : i \in 0..2 } \cup
  { {<<0, j>>, <<1, j>>, <<2, j>>} : j \in 0..2 } \cup
  { {<<0, 0>>, <<1, 1>>, <<2, 2>>}, {<<2, 0>>, <<1, 1>>, <<0, 2>>} }

Marks(c, p) == {m \in Cells : c.board[m[1]][m[2]] = p}

HasLine(c, p) == \E l \in LineSets : l \subseteq Marks(c, p)

Terminal(c) == HasLine(c, X) \/ HasLine(c, O) \/ c.moves = 9

----------------------------------------------------------------------------
(* Properties *)

\* C1: in every game played through the controller the human never wins:
\* whenever is_game_over() is (True, w), w is None or the bot's player.
C1_HumanNeverWins ==
  LET r == is_game_over(ctx) IN
  /\ r[1] => r[2] \in {None, bot.player} /\ r[2] # user_player
  /\ ~ HasLine(ctx, user_player)

\* C1 witness: a game the bot has won with its reply to a click
C1_Witness ==
  /\ last.op = "click" /\ last.bot_called
  /\ is_game_over(ctx) = <<TRUE, bot.player>>
  /\ bot.player = Other(user_player)

\* C2: ctx.moves equals the number of non-None cells of ctx.board, in 0..9.
C2_MovesCountsMarks ==
  /\ ctx.moves = Cardinality(Marks(ctx, X)) + Cardinality(Marks(ctx, O))
  /\ ctx.moves \in 0..9

\* C2 witness: a full board reached by clicks and bot replies
C2_Witness ==
  /\ last.op = "click" /\ last.accepted
  /\ ctx.moves = 9
  /\ Marks(ctx, None) = {}

\* C3: turn alternates with each move: the first mover (O, the turn of a new
\* context) has as many marks as the second mover or one more, and the turn
\* is the first mover's exactly when the counts are equal.
C3_TurnAlternates ==
  LET first == GameContext.turn
      d == Cardinality(Marks(ctx, first)) - Cardinality(Marks(ctx, Other(first)))
  IN /\ d \in {0, 1}
     /\ ctx.turn = (IF d = 0 THEN first ELSE Other(first))

\* C3 witness: after a click and the bot's reply both players have marks and
\* the turn is back at the human
C3_Witness ==
  /\ last.op = "click" /\ last.accepted /\ last.bot_called
  /\ Marks(ctx, X) # {} /\ Marks(ctx, O) # {}
  /\ ctx.turn = user_player

\* C4: once the state is terminal (a line is complete or 9 moves are made),
\* board, moves and turn change only by reset_game.
C4_FrozenAfterGameOver ==
  [][Terminal(ctx) => (ctx' = ctx \/ last'.op = "reset")]_vars

\* C4 witness: a click on an empty cell of a finished game was ignored
C4_Witness ==
  /\ Terminal(ctx)
  /\ last.op = "click" /\ last.target = "empty" /\ ~ last.accepted

\* C5: a click on an occupied cell or outside 0..2 x 0..2 is ignored: board,
\* moves, turn and accept_user_input are unchanged and the bot is not invoked.
C5_BadClickIgnored ==
  [][(last'.op = "click" /\ last'.target \in {"occupied", "out_of_range"})
       => /\ ctx' = ctx
          /\ accept_user_input' = accept_user_input
          /\ bot' = bot
          /\ ~ last'.accepted /\ ~ last'.bot_called]_vars

\* C5 witness: a click on an occupied cell while clicks are being accepted
C5_Witness ==
  /\ last.op = "click" /\ last.target = "occupied"
  /\ accept_user_input
  /\ ~ last.accepted /\ ~ last.bot_called

\* C6: is_game_over returns (True, p) when some line is filled by player p,
\* (True, None) when moves = 9 and no line is complete, (False, None)
\* otherwise; a 9th move completing a line is a win, not a draw.
C6_IsGameOverResult ==
  LET r == is_game_over(ctx)
      winners == {p \in {X, O} : HasLine(ctx, p)}
  IN IF winners # {} THEN r[1] /\ r[2] \in winners
     ELSE IF ctx.moves = 9 THEN r = <<TRUE, None>>
     ELSE r = <<FALSE, None>>

\* C6 witness: the 9th move completed a line and is reported as a win
C6_Witness ==
  /\ last.op = "update"
  /\ ctx.moves = 9
  /\ HasLine(ctx, O) /\ ~ HasLine(ctx, X)
  /\ is_game_over(ctx) = <<TRUE, O>>

\* C7: predict_move on any state with an empty cell (whatever the turn, a
\* line complete or not, whatever the bot predicted before) returns a
\* coordinate of possible_moves().
C7_PredictMoveIsPossible ==
  (last.op = "predict" /\ Len(possible_moves(ctx)) > 0)
    => /\ last.raised = ""
       /\ \E k \in 1..Len(possible_moves(ctx)) : possible_moves(ctx)[k] = last.ret

\* the position of C8: X X . / O O . / . . . with O to move
C8_Board ==
  [i \in 0..2 |-> [j \in 0..2 |->
     IF i = 0 /\ j \in {0, 1} THEN X ELSE IF i = 1 /\ j \in {0, 1} THEN O ELSE None]]

C8_Case ==
  /\ ctx.board = C8_Board /\ ctx.turn = O /\ ctx.moves = 4
  /\ bot.player = O
  /\ last.op = "predict"

\* C8 as stated: on X X . / O O . / . . . with O to move the bot bound to O
\* selects (1,2).
C8_SelectsOneTwo == C8_Case => last.ret = <<1, 2>>

\* C8 amended: on that position the bot bound to O selects (0,2), the first
\* move in row-major order with the best score.
C8_SelectsZeroTwo == C8_Case => (last.raised = "" /\ last.ret = <<0, 2>>)

\* C8 witness: the bot has predicted on that position
C8_Witness == C8_Case /\ bot.move = <<0, 2>> /\ last.ret = bot.move

\* C9: two bots with max_depth >= 9 playing each other from the empty board
\* end in a draw: no prediction fails and a finished game is (True, None).
C9_SelfPlayDraw ==
  /\ last.raised = ""
  /\ (bot.max_depth >= 9 /\ rival.max_depth >= 9 /\ is_game_over(ctx)[1])
       => is_game_over(ctx) = <<TRUE, None>>

\* C9 witness: the self-play game has ended on a full board without a line
C9_Witness ==
  /\ last.op = "update"
  /\ bot.max_depth >= 9 /\ rival.max_depth >= 9
  /\ ctx.moves = 9
  /\ is_game_over(ctx) = <<TRUE, None>>

\* C10: no reachable state has a complete line of X together with a complete
\* line of O.
C10_OneWinner == ~ (HasLine(ctx, X) /\ HasLine(ctx, O))

\* C10 witness: a finished game with a winner's line on the board
C10_Witness ==
  /\ last.op = "click"
  /\ HasLine(ctx, bot.player)
  /\ ~ accept_user_input

\* the complete lines of a board, whoever owns them
CompleteLines(c) == {l \in LineSets : l \subseteq Marks(c, X) \/ l \subseteq Marks(c, O)}

\* C11: right after reset_game ctx.moves is 0 or 1: 0 when the human makes the
\* first move of the game, 1 when the controller made the opening move.
C11_ResetMoves ==
  last.op = "reset"
    => /\ ctx.moves \in {0, 1}
       /\ (ctx.moves = 0) <=> (user_player = GameContext.turn /\ Marks(ctx, None) = Cells)
       /\ (ctx.moves = 1) <=> (Cardinality(Marks(ctx, None)) = 8)

\* C11 witness: a reset that made the opening move
C11_Witness ==
  /\ last.op = "reset"
  /\ ctx.moves = 1
  /\ Cardinality(Marks(ctx, None)) = 8

\* C17: the click handler never calls predict_move on a terminal state: the
\* context passed is not over and has an empty cell.
C17_BotNotCalledOnTerminal ==
  (last.op = "click" /\ last.bot_called)
    => /\ is_game_over(last.arg) = <<FALSE, None>>
       /\ ~ Terminal(last.arg)
       /\ Marks(last.arg, None) # {}

\* C17 witness: the bot was called with a single empty cell left
C17_Witness ==
  /\ last.op = "click" /\ last.bot_called
  /\ Cardinality(Marks(last.arg, None)) = 1
  /\ ctx.moves = 9

\* C18: each side places its own mark: an accepted click happens at the
\* human's turn and the bot's move is applied at the bot's turn, the bot
\* being bound to the other player.
C18_OwnMarksOnly ==
  [][(last'.op = "click" /\ last'.accepted)
       => /\ ctx.turn = user_player
          /\ bot.player = Other(user_player)
          /\ last'.bot_called => last'.arg.turn = bot.player]_vars

\* C18 witness: the human playing X and the bot playing O have both moved
C18_Witness ==
  /\ last.op = "click" /\ last.accepted /\ last.bot_called /\ last.raised = ""
  /\ user_player = X /\ bot.player = O
  /\ Cardinality(Marks(ctx, X)) >= 2
  /\ ctx.board[last.ret[1]][last.ret[2]] = O

\* C19 as stated: reset makes the opening move exactly when the human has the
\* mark that moves first, and the opened cell holds the human's mark.
C19_OpeningForFirstMover ==
  last.op = "reset"
    => /\ (ctx.moves = 1) <=> (user_player = GameContext.turn)
       /\ (ctx.moves = 1) => Cardinality(Marks(ctx, user_player)) = 1

\* C19 amended: reset makes the opening move exactly when the human has the
\* mark that moves second (X), and the opened cell holds the bot's mark (O,
\* the first mover); the turn is then the human's.
C19_OpeningForSecondMover ==
  last.op = "reset"
    => /\ (Marks(ctx, None) # Cells) <=> (user_player = Other(GameContext.turn))
       /\ (Marks(ctx, None) # Cells)
            => /\ Cardinality(Marks(ctx, bot.player)) = 1
               /\ Marks(ctx, user_player) = {}
               /\ bot.player = GameContext.turn
       /\ ctx.turn = user_player

\* C19 witness: a reset with the human on X and one O on the board
C19_Witness ==
  /\ last.op = "reset"
  /\ user_player = X
  /\ Cardinality(Marks(ctx, O)) = 1 /\ Marks(ctx, X) = {}

\* C20 as stated: at most one line is complete in every reachable state.
C20_AtMostOneLine == Cardinality(CompleteLines(ctx)) <= 1

\* C20 amended: at most two lines are complete, all complete lines belong to
\* one player, and is_game_over reports that player whatever line it meets
\* first.
C20_LinesOfOnePlayer ==
  LET L == CompleteLines(ctx) IN
  /\ Cardinality(L) <= 2
  /\ L # {} => \E p \in {X, O} :
                 /\ \A l \in L : l \subseteq Marks(ctx, p)
                 /\ is_game_over(ctx) = <<TRUE, p>>

\* C20 witness: the bot's last move completed two lines at once
C20_Witness ==
  /\ last.op = "click" /\ last.bot_called
  /\ Cardinality(CompleteLines(ctx)) = 2
  /\ \A l \in CompleteLines(ctx) : last.ret \in l /\ l \subseteq Marks(ctx, bot.player)

\* the cell m of context c marked for the player to move
Place(c, m) ==
  [moves |-> c.moves + 1,
   board |-> [i \in 0..2 |-> [j \in 0..2 |->
                IF <<i, j>> = m THEN c.turn ELSE c.board[i][j]]],
   turn  |-> Other(c.turn)]

\* m1 comes before m2 in row-major order
Before(m1, m2) == m1[1] < m2[1] \/ (m1[1] = m2[1] /\ m1[2] < m2[2])

Largest(S) == CHOOSE v \in S : \A w \in S : w <= v

Smallest(S) == CHOOSE v \in S : \A w \in S : v <= w

RECURSIVE Value(_, _)
\* the minimax value of context c for player p: +10 / -10 / 0 at a state won
\* by p / won by the opponent / drawn, else the largest value of a child at
\* p's turn and the smallest at the opponent's
Value(p, c) ==
  IF HasLine(c, p) THEN 10
  ELSE IF HasLine(c, Other(p)) THEN -10
  ELSE IF c.moves = 9 \/ Marks(c, None) = {} THEN 0
  ELSE LET vals == {Value(p, Place(c, m)) : m \in Marks(c, None)}
       IN IF c.turn = p THEN Largest(vals) ELSE Smallest(vals)

\* C12 as stated: update leaves the state it is given as it was (board, moves
\* and turn compare equal before and after the call).
C12_UpdateKeepsInput ==
  [][last'.op = "update" => ctx' = ctx]_vars

\* C13: update called on a cell that is not empty, or with a coordinate out
\* of range, fails with an error and changes neither the cell's owner nor
\* moves nor turn.
C13_IllegalUpdateFails ==
  [][(last'.op = "update" /\ last'.target \in {"occupied", "out_of_range"})
       => /\ last'.raised # ""
          /\ ctx' = ctx]_vars

\* C14: predict_move on a state without a legal move fails with an error and
\* returns no move.
C14_NoLegalMoveFails ==
  (last.op = "predict" /\ Marks(last.arg, None) = {})
    => /\ last.raised # ""
       /\ last.ret = NoMove

\* C15: on a non-terminal state at the bot's turn predict_move returns the
\* first move in row-major order among the legal moves of maximal minimax
\* value.
C15_FirstBestMove ==
  (last.op = "predict" /\ ~ Terminal(last.arg) /\ last.arg.turn = bot.player)
    => LET c == last.arg
           v == [m \in Marks(c, None) |-> Value(bot.player, Place(c, m))]
           best == Largest({v[m] : m \in Marks(c, None)})
           B == {m \in Marks(c, None) : v[m] = best}
       IN /\ last.raised = ""
          /\ last.ret \in B
          /\ \A m \in B : m = last.ret \/ Before(last.ret, m)

\* C15 witness: the bot chose among several best moves and passed over a
\* worse move that comes earlier in row-major order
C15_Witness ==
  /\ last.op = "predict" /\ ~ Terminal(last.arg) /\ last.arg.turn = bot.player
  /\ last.raised = ""
  /\ LET c == last.arg
         v == [m \in Marks(c, None) |-> Value(bot.player, Place(c, m))]
     IN /\ \E m \in Marks(c, None) : Before(m, last.ret) /\ v[m] < v[last.ret]
        /\ \E m \in Marks(c, None) : Before(last.ret, m) /\ v[m] = v[last.ret]

\* C16: predict_move leaves the context it is given unchanged: board, moves
\* and turn are after the call what they were before it.
C16_PredictKeepsContext ==
  last.op = "predict" => ctx = last.arg

\* C16 witness: a search over at least five empty cells has returned a move
\* and the context is as before
C16_Witness ==
  /\ last.op = "predict" /\ last.raised = ""
  /\ Cardinality(Marks(last.arg, None)) >= 5
  /\ ctx = last.arg

====
